---- MODULE Spec2Model ----
(***************************************************************************)
(* Hal.c of the MSP-EXP430F5438A platform: the interrupt-to-main-loop      *)
(* event dispatcher (Hal_idleLoop / postEvent), the interrupt service      *)
(* routines, the UART watchdog on TA1CCR1 and the periodic tick on         *)
(* TA1CCR0.  The main context is modelled statement by statement; an       *)
(* interrupt service routine runs with GIE clear and is one step.          *)
(***************************************************************************)
EXTENDS Integers, Sequences, FiniteSets, TLC

(* ---------------- program constants ---------------- *)

NUM_HANDLERS == 3
BUTTON_HANDLER_ID == 0
TICK_HANDLER_ID == 1
DISPATCH_HANDLER_ID == 2
ACLK_TICKS_PER_SECOND == 32768
UART_WATCHDOG_PERIOD == (ACLK_TICKS_PER_SECOND * 250) \div 1000

\* uint16_t registers and variables wrap at 2^16
Word == 65536

(* ---------------- bounds of the model ---------------- *)

\* number of times the timer is advanced
MaxAdvance == 3
\* saturation of the per-identifier count of postEvent calls between drains
MaxPost == 2
\* number of external interrupt requests (button, receive, handshake edges)
MaxRaise == 2
\* number of Em_Hal_startSend calls
MaxSends == 1
\* longest payload handed to the codec
MaxLen == 3
\* number of Em_Hal_reset / Em_Hal_watchOn / Em_Hal_watchOff calls
MaxCalls == 1

Ids == 0 .. (NUM_HANDLERS - 1)
NULL == "NULL"
\* requested tick periods in milliseconds (2000 ms overflows the uint16_t clockTick)
TickMsecs == {250, 1000}
TickHandlers == {NULL, "appTick"}
\* requested periods over the whole range of the uint16_t argument
WideMsecs == {1, 100, 1999, 2000, 65535}
\* requested periods that do not divide a quarter of a second, and ones that do
PeriodMsecs == {100, 250, 1000}
Payloads == {[i \in 1 .. n |-> i] : n \in 1 .. MaxLen}

VARIABLES
    pc,             \* position of the main context
    rst,            \* position inside Em_Hal_reset ("none" when not in it)
    key,            \* Em_Hal_reset's saved interrupt state
    id,             \* Hal_idleLoop's loop variable
    events,         \* Hal_idleLoop's snapshot
    gie,            \* SR.GIE
    lpm,            \* SR.LPM3 bits (CPU off)
    handlerEvents,
    handlerTab,
    clockTick,
    TA1R, TA1CCR0, TA1CCR1,
    ccie0, ccifg0,  \* TA1CCTL0
    ccie1, ccifg1,  \* TA1CCTL1
    btnIe, btnIfg,  \* P2IE.6, P2IFG.6
    rxIe, rxIfg,    \* UCA2IE.UCRXIE, UCA2IFG.UCRXIFG
    txIfg,          \* UCA2IFG.UCTXIFG
    ackIe, ackIfg,  \* P1IE.2, P1IFG.2
    rxAck,          \* P1OUT.3 (EAP_RX_ACK)
    txq,            \* codec: bytes still to be supplied
    budget,         \* what the environment may still do (the bounds of the model)
    hist            \* observations, never read by the program

vars == <<pc, rst, key, id, events, gie, lpm, handlerEvents, handlerTab, clockTick,
          TA1R, TA1CCR0, TA1CCR1, ccie0, ccifg0, ccie1, ccifg1, btnIe, btnIfg,
          rxIe, rxIfg, txIfg, ackIe, ackIfg, rxAck, txq, budget, hist>>

hw == <<TA1R, TA1CCR0, TA1CCR1, ccie0, ccifg0, ccie1, ccifg1, btnIe, btnIfg,
        rxIe, rxIfg, txIfg, ackIe, ackIfg, rxAck>>
loop == <<pc, id, events>>

(* ---------------- helpers ---------------- *)

Pow2(n) == 2 ^ n
Bit(x, i) == (x \div Pow2(i)) % 2 = 1
SetBit(x, i) == IF Bit(x, i) THEN x ELSE (x + Pow2(i)) % Word
Min(a, b) == IF a < b THEN a ELSE b
Sat(n) == Min(n + 1, MaxPost)

\* ticks until the free-running counter r next counts to c (1 .. Word)
Dist(r, c) == ((c - r - 1) % Word) + 1
\* the counter, advanced by d from r, counts to c
Matches(r, d, c) == Dist(r, c) <= d

(* ---------------- status register macros (lines 144-158) ---------------- *)

\* a DINT() that leaves GIE as it is
DINT_noop(g) == g

\* an EINT() that leaves GIE as it is
EINT_noop(g) == g

\* DINT(), EINT(): the new value of GIE
DINT(g) == FALSE
EINT(g) == TRUE
\* SLEEP(): bis LPM3_bits + GIE into SR, in one instruction
SLEEP(g, l) == [gie |-> TRUE, lpm |-> TRUE]
\* a WAKEUP() that leaves the LPM3 bits set
WAKEUP_noop(l) == l

\* WAKEUP(): clear LPM3_bits in the SR the interrupt returns to
WAKEUP(l) == FALSE

(* ---------------- watchdog macros (lines 133-134) ---------------- *)

\* an enable that leaves an already programmed deadline in place
UART_WATCH_ENABLE_stale(ta1r, ccr1) == [TA1CCR1 |-> ccr1, ccie1 |-> TRUE, ccifg1 |-> FALSE]

\* UART_WATCH_ENABLE(): TA1CCR1 = TA1R + UART_WATCHDOG_PERIOD, TA1CCTL1 = CCIE
UART_WATCH_ENABLE(ta1r, ccr1) ==
    [TA1CCR1 |-> (ta1r + UART_WATCHDOG_PERIOD) % Word, ccie1 |-> TRUE, ccifg1 |-> FALSE]
\* UART_WATCH_DISABLE(): TA1CCTL1 = 0
UART_WATCH_DISABLE(ccr1) == [TA1CCR1 |-> ccr1, ccie1 |-> FALSE, ccifg1 |-> FALSE]

(* ---------------- critical section (lines 344-355, 374-381) ---------------- *)

\* an unlock that enables interrupts whatever the key
Em_Hal_unlock_eint(g, k) == TRUE

\* Em_Hal_lock: returns the GIE bit as the key and disables interrupts
Em_Hal_lock(g) == [key |-> g, gie |-> FALSE]
\* Em_Hal_unlock: "bis key,r2" / _set_interrupt_state(key) after a lock
Em_Hal_unlock(g, k) == g \/ k

\* a postEvent that leaves the mask as it is
postEvent_drop(he, g, handlerId) ==
    LET l == Em_Hal_lock(g)
    IN  [handlerEvents |-> he, gie |-> Em_Hal_unlock(l.gie, l.key)]

\* postEvent: handlerEvents |= 1 << handlerId, under the lock
postEvent(he, g, handlerId) ==
    LET l == Em_Hal_lock(g)
    IN  [handlerEvents |-> SetBit(he, handlerId), gie |-> Em_Hal_unlock(l.gie, l.key)]

(* ---------------- external codec (Em_Message.h, interface only) ---------------- *)

\* startTx: the first byte of the message, the rest stays with the codec
Em_Message_startTx(p) == [byte |-> Head(p), txq |-> Tail(p)]
\* getByte: the next byte if one is left, otherwise declines
Em_Message_getByte(q) ==
    IF q = <<>> THEN [ok |-> FALSE, byte |-> 0, txq |-> q]
    ELSE [ok |-> TRUE, byte |-> Head(q), txq |-> Tail(q)]
\* restart: the transport returns to idle
Em_Message_restart(q) == <<>>

(* ---------------- initial state: after Hal_init ---------------- *)

Init ==
    /\ pc = "app" /\ rst = "none" /\ key = FALSE /\ id = 0 /\ events = 0
    /\ gie = FALSE /\ lpm = FALSE
    /\ handlerEvents = 0
    /\ handlerTab = [i \in Ids |-> IF i = DISPATCH_HANDLER_ID THEN "Em_Message_dispatch" ELSE NULL]
    /\ clockTick = 0
    /\ TA1R = 0 /\ TA1CCR0 = 0 /\ TA1CCR1 = (0 + UART_WATCHDOG_PERIOD) % Word
    /\ ccie0 = FALSE /\ ccifg0 = FALSE
    /\ ccie1 = TRUE /\ ccifg1 = FALSE
    /\ btnIe = FALSE /\ btnIfg = FALSE
    /\ rxIe = FALSE /\ rxIfg = FALSE
    /\ txIfg = TRUE
    /\ ackIe = TRUE /\ ackIfg = FALSE
    /\ rxAck = 0
    /\ txq = <<>>
    /\ budget = [adv |-> 0, raise |-> 0, sends |-> 0, calls |-> 0]
    /\ hist = [posted |-> [i \in Ids |-> 0], snapPosted |-> [i \in Ids |-> 0],
               trace |-> <<>>, phase |-> "start",
               tok |-> [i \in Ids |-> "none"], delivered |-> FALSE, woke |-> FALSE,
               t0 |-> 0, k |-> 0, lateTick |-> FALSE,
               msecs |-> 0, elapsed |-> 0, tickCalls |-> 0,
               nested |-> FALSE, discarded |-> FALSE, openWrite |-> FALSE,
               rx |-> [n |-> 0, steps |-> <<>>, complete |-> FALSE], ackWoke |-> FALSE,
               wd |-> "armed", arms |-> 1, restarts |-> 0, armedAtRestart |-> FALSE,
               ackSeen |-> FALSE, ackedThenFired |-> FALSE, sinceArm |-> 0, early |-> FALSE,
               payload |-> <<>>, txLog |-> <<>>, inFlight |-> FALSE, tx |-> "idle",
               stale |-> FALSE,
               sinceTx |-> 0, slowAck |-> FALSE, firedInTx |-> 0]

(* ---------------- interrupt logic ---------------- *)

\* an enabled interrupt is requested and GIE is set: it is taken before the next instruction
IntPending ==
    gie /\ (\/ btnIe /\ btnIfg
            \/ rxIe /\ rxIfg
            \/ ackIe /\ ackIfg
            \/ ccie0 /\ ccifg0
            \/ ccie1 /\ ccifg1)

\* the main context executes its next statement
MainReady == ~lpm /\ ~IntPending

\* between DINT and the following EINT or SLEEP of Hal_idleLoop
InCritical == pc \in {"read", "clear", "test"}

(* ---------------- observation helpers ---------------- *)

\* an interrupt request for identifier i is raised: remember the one raised inside
\* the critical section of a drain
TokRaise(h, i, fresh) ==
    IF InCritical /\ fresh /\ h.tok[i] = "none"
    THEN [h EXCEPT !.tok[i] = "pend"] ELSE h

\* the service routine of identifier i ran; posts says whether it called postEvent
TokIsr(h, i, posts) ==
    LET h1 == IF posts THEN [h EXCEPT !.posted[i] = Sat(@), !.woke = @ \/ lpm] ELSE h
    IN  IF h.tok[i] = "pend"
        THEN [h1 EXCEPT !.tok[i] = IF posts THEN "posted" ELSE "none"]
        ELSE h1

(* ---------------- Hal_idleLoop (lines 292-316) ---------------- *)

\* line 294: EINT() on entry, from the application's main()
Hal_idleLoop ==
    /\ pc = "app" /\ rst = "none" /\ MainReady
    /\ gie' = EINT(gie)
    /\ pc' = "dint"
    /\ UNCHANGED <<rst, key, id, events, lpm, handlerEvents, handlerTab, clockTick, hw,
                   txq, budget, hist>>

\* line 298: DINT()
L_DINT ==
    /\ pc = "dint" /\ MainReady
    /\ gie' = DINT(gie)
    /\ pc' = "read"
    /\ hist' = [hist EXCEPT !.tok = [i \in Ids |-> IF @[i] = "pend" THEN "late" ELSE @[i]]]
    /\ UNCHANGED <<rst, key, id, events, lpm, handlerEvents, handlerTab, clockTick, hw,
                   txq, budget>>

\* the drain leaves the mask as it found it
ClearedEventsKeep(he) == he

\* line 300: the value stored into handlerEvents
ClearedEvents(he) == 0

\* line 299: events = handlerEvents
L_READ ==
    /\ pc = "read" /\ MainReady
    /\ events' = handlerEvents
    /\ pc' = "clear"
    /\ hist' = [hist EXCEPT !.snapPosted = hist.posted,
                            !.posted = [i \in Ids |-> 0],
                            !.trace = <<>>,
                            !.phase = "draining",
                            !.tok = [i \in Ids |->
                                       IF @[i] = "posted"
                                       THEN (IF Bit(handlerEvents, i) THEN "snapped" ELSE "lost")
                                       ELSE @[i]]]
    /\ UNCHANGED <<rst, key, id, gie, lpm, handlerEvents, handlerTab, clockTick, hw,
                   txq, budget>>

\* line 300: handlerEvents = 0
L_CLEAR ==
    /\ pc = "clear" /\ MainReady
    /\ handlerEvents' = ClearedEvents(handlerEvents)
    /\ pc' = "test"
    /\ hist' = [hist EXCEPT !.tok = [i \in Ids |-> IF @[i] = "posted" THEN "lost" ELSE @[i]]]
    /\ UNCHANGED <<rst, key, id, events, gie, lpm, handlerTab, clockTick, hw, txq, budget>>

\* lines 302-306 and 312-314: if (events) { EINT(); id = 0, mask = 1 } else SLEEP()
L_TEST ==
    /\ pc = "test" /\ MainReady
    /\ IF events # 0
       THEN /\ gie' = EINT(gie)
            /\ id' = 0
            /\ pc' = "disp"
            /\ UNCHANGED <<lpm, hist>>
       ELSE /\ gie' = SLEEP(gie, lpm).gie
            /\ lpm' = SLEEP(gie, lpm).lpm
            /\ pc' = "dint"
            /\ hist' = [hist EXCEPT !.phase = "done"]
            /\ UNCHANGED id
    /\ UNCHANGED <<rst, key, events, handlerEvents, handlerTab, clockTick, hw, txq, budget>>

\* the test without the check of the slot
ShouldInvokeUnchecked(ev, i, tab) == Bit(ev, i)

\* line 307: (events & mask) && handlerTab[id], with mask = 1 << id
ShouldInvoke(ev, i, tab) == Bit(ev, i) /\ tab[i] # NULL

\* lines 306-310: one turn of the for loop, up to the call of the handler; h is the
\* identifier the turn examines
Dispatch(h) ==
    /\ pc = "disp" /\ MainReady
    /\ IF id < NUM_HANDLERS
       THEN IF ShouldInvoke(events, h, handlerTab)
            THEN /\ pc' = "handler"
                 /\ hist' = [hist EXCEPT
                       !.trace = Append(@, <<"call", h>>),
                       !.delivered = @ \/ (hist.tok[h] = "snapped"),
                       !.tickCalls = IF h = TICK_HANDLER_ID THEN @ + 1 ELSE @,
                       !.tok[h] = IF @ = "snapped" THEN "none"
                                  ELSE IF @ = "posted" /\ hist.snapPosted[h] = 0
                                  THEN "double" ELSE @]
                 /\ UNCHANGED id
            ELSE /\ id' = id + 1
                 /\ pc' = "disp"
                 /\ hist' = [hist EXCEPT
                       !.trace = IF Bit(events, h) THEN Append(@, <<"skip", h>>) ELSE @,
                       !.tok[h] = IF @ = "snapped"
                                  THEN (IF Bit(events, h) THEN "none" ELSE "lost")
                                  ELSE @]
       ELSE /\ pc' = "dint"
            /\ hist' = [hist EXCEPT !.phase = "done"]
            /\ UNCHANGED id
    /\ UNCHANGED <<rst, key, events, gie, lpm, handlerEvents, handlerTab, clockTick, hw,
                   txq, budget>>

\* the loop walking the identifiers from the highest down
L_DISP_down == Dispatch(NUM_HANDLERS - 1 - id)

\* line 306: for (id = 0, mask = 0x1; id < NUM_HANDLERS; id++, mask <<= 1)
L_DISP == Dispatch(id)

\* line 308: handlerTab[id]() returns; id++, mask <<= 1
HandlerReturn ==
    /\ pc = "handler" /\ rst = "none" /\ MainReady
    /\ id' = id + 1
    /\ pc' = "disp"
    /\ hist' = [hist EXCEPT !.trace = Append(@, <<"ret", @[Len(@)][2]>>)]
    /\ UNCHANGED <<rst, key, events, gie, lpm, handlerEvents, handlerTab, clockTick, hw,
                   txq, budget>>

(* ---------------- interrupt service routines (lines 415-497) ---------------- *)

\* lines 415-419
buttonIsr ==
    /\ gie /\ btnIe /\ btnIfg
    /\ LET r == postEvent(handlerEvents, FALSE, BUTTON_HANDLER_ID)
       IN  handlerEvents' = r.handlerEvents
    /\ btnIfg' = FALSE /\ btnIe' = TRUE          \* BUTTON_ENABLE()
    /\ lpm' = WAKEUP(lpm)
    /\ hist' = [TokIsr(hist, BUTTON_HANDLER_ID, TRUE) EXCEPT
                   !.nested = @ \/ postEvent(handlerEvents, FALSE, BUTTON_HANDLER_ID).gie]
    /\ UNCHANGED <<loop, rst, key, gie, handlerTab, clockTick, TA1R, TA1CCR0, TA1CCR1,
                   ccie0, ccifg0, ccie1, ccifg1, rxIe, rxIfg, txIfg, ackIe, ackIfg, rxAck,
                   txq, budget>>

\* a routine that posts the dispatch event on every byte
RxPostsAlways(complete) == TRUE

\* line 446: if (Em_Message_addByte(b)) postEvent(DISPATCH_HANDLER_ID)
RxPosts(complete) == complete

\* lines 443-447: what the routine does with a byte, in program order
RxSteps(complete) ==
    <<"startRx", "rxAckLow", "rxAckHigh", "addByte">>
       \o (IF RxPosts(complete) THEN <<"postEvent">> ELSE <<>>)

\* lines 437-452; Em_Message_addByte's answer is the codec's
rxIsr ==
    /\ gie /\ rxIe /\ rxIfg
    /\ rxIfg' = FALSE                            \* UCA2IV, EAP_RX_BUF read
    /\ rxAck' = 1                                \* EAP_RX_ACK_CLR(); EAP_RX_ACK_SET()
    /\ \E complete \in BOOLEAN :
          /\ handlerEvents' =
                IF RxPosts(complete)
                THEN postEvent(handlerEvents, FALSE, DISPATCH_HANDLER_ID).handlerEvents
                ELSE handlerEvents
          /\ hist' = [TokIsr(hist, DISPATCH_HANDLER_ID, RxPosts(complete)) EXCEPT
                         !.nested = @ \/ (RxPosts(complete) /\
                              postEvent(handlerEvents, FALSE, DISPATCH_HANDLER_ID).gie),
                         !.rx = [n |-> @.n + 1, steps |-> RxSteps(complete),
                                 complete |-> complete]]
    /\ lpm' = WAKEUP(lpm)
    /\ UNCHANGED <<loop, rst, key, gie, handlerTab, clockTick, TA1R, TA1CCR0, TA1CCR1,
                   ccie0, ccifg0, ccie1, ccifg1, btnIe, btnIfg, rxIe, txIfg, ackIe, ackIfg,
                   txq, budget>>

\* re-arming from the current count: TA1CCR0 = TA1R + clockTick
NextDeadlineFromNow(ccr0, ta1r, ct) == (ta1r + ct) % Word

\* line 461: TA1CCR0 += clockTick
NextDeadline(ccr0, ta1r, ct) == (ccr0 + ct) % Word

\* lines 460-464
timerIsr ==
    /\ gie /\ ccie0 /\ ccifg0
    /\ ccifg0' = FALSE
    /\ TA1CCR0' = NextDeadline(TA1CCR0, TA1R, clockTick)
    /\ LET r == postEvent(handlerEvents, FALSE, TICK_HANDLER_ID)
       IN  handlerEvents' = r.handlerEvents
    /\ lpm' = WAKEUP(lpm)
    /\ hist' = [TokIsr(hist, TICK_HANDLER_ID, TRUE) EXCEPT
                   !.nested = @ \/ postEvent(handlerEvents, FALSE, TICK_HANDLER_ID).gie,
                   !.k = @ + 1,
                   !.lateTick = @ \/ (TA1R # TA1CCR0)]
    /\ UNCHANGED <<loop, rst, key, gie, handlerTab, clockTick, TA1R, TA1CCR1,
                   ccie0, ccie1, ccifg1, btnIe, btnIfg, rxIe, rxIfg, txIfg, ackIe, ackIfg, rxAck,
                   txq, budget>>

\* a routine that writes the output register whatever the codec answers
TxAckWritesAlways(flag, ok) == flag

\* lines 473-476: EAP_TX_BUF is written when the edge flag is set and getByte succeeds
TxAckWrites(flag, ok) == flag /\ ok

\* lines 472-481
txAckIsr ==
    /\ gie /\ ackIe /\ ackIfg
    /\ LET g == Em_Message_getByte(txq)
       IN  /\ txq' = g.txq
           /\ hist' = [hist EXCEPT
                 !.txLog = IF TxAckWrites(ackIfg, g.ok) THEN Append(@, g.byte) ELSE @,
                 !.ackWoke = @ \/ (lpm /\ ~g.ok),
                 !.sinceTx = IF g.ok THEN 0 ELSE @,
                 !.slowAck = @ \/ (hist.tx = "open" /\ hist.sinceTx >= UART_WATCHDOG_PERIOD),
                 !.inFlight = @ /\ g.ok,
                 !.tx = IF @ = "open" /\ ~g.ok THEN "done" ELSE @,
                 !.ackSeen = @ \/ (ccie1 /\ ~ccifg1)]
    /\ txIfg' = (txIfg \/ TxAckWrites(ackIfg, txq # <<>>))
    /\ ackIfg' = FALSE                           \* EAP_TX_ACK_CLR()
    /\ lpm' = WAKEUP(lpm)
    /\ UNCHANGED <<loop, rst, key, gie, handlerEvents, handlerTab, clockTick, TA1R,
                   TA1CCR0, TA1CCR1, ccie0, ccifg0, ccie1, ccifg1, btnIe, btnIfg,
                   rxIe, rxIfg, ackIe, rxAck, budget>>

\* the routine leaving TA1CCTL1 as it is
WatchdogExpiryKeep(en) == [ccie1 |-> en, seen |-> en]

\* lines 492-493: UART_WATCH_DISABLE(), then Em_Message_restart(); the result is the
\* watchdog enable after the routine and the enable the restart callback found
WatchdogExpiry(en) ==
    LET disabled == FALSE                        \* line 492: TA1CCTL1 = 0
    IN  [ccie1 |-> disabled, seen |-> disabled]  \* line 493 runs after line 492

\* lines 489-497
uartWatchdogIsr ==
    /\ gie /\ ccie1 /\ ccifg1
    /\ LET w == WatchdogExpiry(ccie1)
       IN  /\ ccie1' = w.ccie1
           /\ hist' = [hist EXCEPT
                 !.wd = "fired",
                 !.restarts = @ + 1,
                 !.armedAtRestart = @ \/ w.seen,
                 !.early = @ \/ (hist.sinceArm < UART_WATCHDOG_PERIOD),
                 !.ackedThenFired = @ \/ hist.ackSeen,
                 !.firedInTx = IF hist.tx = "open" THEN @ + 1 ELSE @,
                 !.slowAck = @ \/ (hist.tx = "open" /\ hist.sinceTx >= UART_WATCHDOG_PERIOD),
                 !.inFlight = FALSE]
    /\ ccifg1' = FALSE                           \* TA1IV read; TA1CCTL1 = 0
    /\ txq' = Em_Message_restart(txq)
    /\ lpm' = WAKEUP(lpm)
    /\ UNCHANGED <<loop, rst, key, gie, handlerEvents, handlerTab, clockTick, TA1R,
                   TA1CCR0, TA1CCR1, ccie0, ccifg0, btnIe, btnIfg, rxIe, rxIfg, txIfg,
                   ackIe, ackIfg, rxAck, budget>>

(* ---------------- application and SRT interface, main context ---------------- *)

\* the application's main() before Hal_idleLoop, or a handler called by the loop
InMain == pc \in {"app", "handler"} /\ rst = "none" /\ MainReady

\* lines 177-183 (appButtonHandler is read by buttonHandler only)
Hal_buttonEnable ==
    /\ pc = "app" /\ rst = "none" /\ MainReady
    /\ handlerTab' = [handlerTab EXCEPT ![BUTTON_HANDLER_ID] = "buttonHandler"]
    /\ btnIfg' = FALSE /\ btnIe' = TRUE          \* BUTTON_ENABLE()
    /\ UNCHANGED <<loop, rst, key, gie, lpm, handlerEvents, clockTick, TA1R, TA1CCR0,
                   TA1CCR1, ccie0, ccifg0, ccie1, ccifg1, rxIe, rxIfg, txIfg, ackIe, ackIfg,
                   rxAck, txq, budget, hist>>

\* line 336: clockTick = (ACLK_TICKS_PER_SECOND * msecs) / 1000, stored in a uint16_t
ClockTickOf(msecs) == ((ACLK_TICKS_PER_SECOND * msecs) \div 1000) % Word

\* lines 334-339
Hal_tickStart(msecs, handler) ==
    /\ pc = "app" /\ rst = "none" /\ MainReady
    /\ handlerTab' = [handlerTab EXCEPT ![TICK_HANDLER_ID] = handler]
    /\ clockTick' = ClockTickOf(msecs)
    /\ TA1CCR0' = (TA1R + ClockTickOf(msecs)) % Word
    /\ ccie0' = TRUE /\ ccifg0' = FALSE          \* TA1CCTL0 = CCIE
    /\ hist' = [hist EXCEPT !.t0 = TA1R, !.k = 1, !.lateTick = FALSE,
                            !.msecs = msecs, !.elapsed = 0, !.tickCalls = 0]
    /\ UNCHANGED <<loop, rst, key, gie, lpm, handlerEvents, TA1R, TA1CCR1, ccie1, ccifg1,
                   btnIe, btnIfg, rxIe, rxIfg, txIfg, ackIe, ackIfg, rxAck, txq, budget>>

\* lines 370-372
Em_Hal_startSend(p) ==
    /\ InMain
    /\ budget.sends < MaxSends /\ txq = <<>>
    /\ LET s == Em_Message_startTx(p)
       IN  /\ txq' = s.txq
           /\ hist' = [hist EXCEPT !.openWrite = @ \/ gie,
                                   !.payload = p, !.txLog = <<s.byte>>,
                                   !.inFlight = TRUE, !.tx = "open", !.stale = ccifg1,
                                   !.sinceTx = 0, !.slowAck = FALSE, !.firedInTx = 0]
    /\ txIfg' = TRUE                             \* EAP_TX_BUF written, then empty again
    /\ budget' = [budget EXCEPT !.sends = @ + 1]
    /\ UNCHANGED <<loop, rst, key, gie, lpm, handlerEvents, handlerTab, clockTick,
                   TA1R, TA1CCR0, TA1CCR1, ccie0, ccifg0, ccie1, ccifg1, btnIe, btnIfg,
                   rxIe, rxIfg, ackIe, ackIfg, rxAck>>

\* lines 387-389, 134: TA1CCR1 = TA1R + UART_WATCHDOG_PERIOD, TA1CCTL1 = CCIE
Em_Hal_watchOn ==
    /\ InMain
    /\ budget.calls < MaxCalls
    /\ LET w == UART_WATCH_ENABLE(TA1R, TA1CCR1)
       IN  TA1CCR1' = w.TA1CCR1 /\ ccie1' = w.ccie1 /\ ccifg1' = w.ccifg1
    /\ budget' = [budget EXCEPT !.calls = @ + 1]
    /\ hist' = [hist EXCEPT !.wd = "armed", !.arms = @ + 1, !.ackSeen = FALSE,
                            !.sinceArm = 0, !.openWrite = @ \/ gie]
    /\ UNCHANGED <<loop, rst, key, gie, lpm, handlerEvents, handlerTab, clockTick, TA1R,
                   TA1CCR0, ccie0, ccifg0, btnIe, btnIfg, rxIe, rxIfg, txIfg, ackIe, ackIfg,
                   rxAck, txq>>

\* lines 383-385, 133: TA1CCTL1 = 0
Em_Hal_watchOff ==
    /\ InMain
    /\ budget.calls < MaxCalls
    /\ LET w == UART_WATCH_DISABLE(TA1CCR1)
       IN  TA1CCR1' = w.TA1CCR1 /\ ccie1' = w.ccie1 /\ ccifg1' = w.ccifg1
    /\ budget' = [budget EXCEPT !.calls = @ + 1]
    /\ hist' = [hist EXCEPT !.wd = "off", !.ackSeen = FALSE, !.openWrite = @ \/ gie]
    /\ UNCHANGED <<loop, rst, key, gie, lpm, handlerEvents, handlerTab, clockTick, TA1R,
                   TA1CCR0, ccie0, ccifg0, btnIe, btnIfg, rxIe, rxIfg, txIfg, ackIe,
                   ackIfg, rxAck, txq>>

\* lines 358-360: key = Em_Hal_lock(); EAP_RX_ACK_CLR(); then Hal_delay(100) begins
Em_Hal_reset_begin ==
    /\ InMain
    /\ budget.calls < MaxCalls
    /\ LET l == Em_Hal_lock(gie)
       IN  key' = l.key /\ gie' = l.gie
    /\ rxAck' = 0
    /\ rst' = "delay1"
    /\ budget' = [budget EXCEPT !.calls = @ + 1]
    /\ UNCHANGED <<loop, lpm, handlerEvents, handlerTab, clockTick, TA1R, TA1CCR0, TA1CCR1,
                   ccie0, ccifg0, ccie1, ccifg1, btnIe, btnIfg, rxIe, rxIfg, txIfg, ackIe, ackIfg,
                   txq, hist>>

\* lines 361-362: the first delay is over; EAP_RX_ACK_SET(); then Hal_delay(500) begins
Em_Hal_reset_set ==
    /\ rst = "delay1" /\ MainReady
    /\ rxAck' = 1
    /\ rst' = "delay2"
    /\ UNCHANGED <<loop, key, gie, lpm, handlerEvents, handlerTab, clockTick, TA1R, TA1CCR0,
                   TA1CCR1, ccie0, ccifg0, ccie1, ccifg1, btnIe, btnIfg, rxIe, rxIfg, txIfg, ackIe,
                   ackIfg, txq, budget, hist>>

\* a reset that leaves a pending handshake edge in place
ResetClearsKeepAck(rx, tx, ack) == [rxIfg |-> FALSE, txIfg |-> FALSE, ackIfg |-> ack]

\* lines 363-365: EAP_RX_INT_CLR(); EAP_TX_INT_CLR(); EAP_TX_ACK_CLR()
ResetClears(rx, tx, ack) == [rxIfg |-> FALSE, txIfg |-> FALSE, ackIfg |-> FALSE]

\* lines 363-367: the second delay is over; clear the flags, enable receive, unlock
Em_Hal_reset_end ==
    /\ rst = "delay2" /\ MainReady
    /\ LET c == ResetClears(rxIfg, txIfg, ackIfg)
       IN  rxIfg' = c.rxIfg /\ txIfg' = c.txIfg /\ ackIfg' = c.ackIfg
    /\ rxIe' = TRUE                              \* EAP_RX_INT_ENABLE()
    /\ gie' = Em_Hal_unlock(gie, key)
    /\ rst' = "none"
    /\ hist' = [hist EXCEPT !.discarded = @ \/ (rxIfg /\ ackIfg)]
    /\ UNCHANGED <<loop, key, lpm, handlerEvents, handlerTab, clockTick, TA1R, TA1CCR0,
                   TA1CCR1, ccie0, ccifg0, ccie1, ccifg1, btnIe, btnIfg, ackIe, rxAck,
                   txq, budget>>

(* ---------------- environment: peripherals ---------------- *)

\* an edge on P2.6 sets P2IFG.6
ButtonEdge ==
    /\ budget.raise < MaxRaise
    /\ btnIfg' = TRUE
    /\ budget' = [budget EXCEPT !.raise = @ + 1]
    /\ hist' = TokRaise(hist, BUTTON_HANDLER_ID, btnIe /\ ~btnIfg)
    /\ UNCHANGED <<loop, rst, key, gie, lpm, handlerEvents, handlerTab, clockTick, TA1R,
                   TA1CCR0, TA1CCR1, ccie0, ccifg0, ccie1, ccifg1, btnIe, rxIe, rxIfg, txIfg,
                   ackIe, ackIfg, rxAck, txq>>

\* a byte arrives in UCA2RXBUF and sets UCRXIFG
RxByte ==
    /\ budget.raise < MaxRaise
    /\ rxIfg' = TRUE
    /\ budget' = [budget EXCEPT !.raise = @ + 1]
    /\ hist' = TokRaise(hist, DISPATCH_HANDLER_ID, rxIe /\ ~rxIfg)
    /\ UNCHANGED <<loop, rst, key, gie, lpm, handlerEvents, handlerTab, clockTick, TA1R,
                   TA1CCR0, TA1CCR1, ccie0, ccifg0, ccie1, ccifg1, btnIe, btnIfg, rxIe,
                   txIfg, ackIe, ackIfg, rxAck, txq>>

\* the peer's ready line (P1.2) edges and sets P1IFG.2
AckEdge ==
    /\ budget.raise < MaxRaise
    /\ ackIfg' = TRUE
    /\ budget' = [budget EXCEPT !.raise = @ + 1]
    /\ UNCHANGED <<loop, rst, key, gie, lpm, handlerEvents, handlerTab, clockTick, TA1R,
                   TA1CCR0, TA1CCR1, ccie0, ccifg0, ccie1, ccifg1, btnIe, btnIfg, rxIe,
                   rxIfg, txIfg, ackIe, rxAck, txq, hist>>

\* TA1R counts d ticks of ACLK (continuous mode); a compare match sets CCIFG
Advance(d) ==
    /\ budget.adv < MaxAdvance
    /\ ~IntPending
    /\ TA1R' = (TA1R + d) % Word
    /\ ccifg0' = (ccifg0 \/ Matches(TA1R, d, TA1CCR0))
    /\ ccifg1' = (ccifg1 \/ Matches(TA1R, d, TA1CCR1))
    /\ hist' = [TokRaise(hist, TICK_HANDLER_ID,
                         ccie0 /\ ~ccifg0 /\ Matches(TA1R, d, TA1CCR0)) EXCEPT
                   !.elapsed = IF ccie0 THEN @ + d ELSE @,
                   !.sinceTx = IF hist.tx = "open"
                               THEN Min(@ + d, UART_WATCHDOG_PERIOD) ELSE @,
                   !.sinceArm = IF hist.wd = "armed"
                                THEN Min(@ + d, UART_WATCHDOG_PERIOD) ELSE @]
    /\ budget' = [budget EXCEPT !.adv = @ + 1]
    /\ UNCHANGED <<loop, rst, key, gie, lpm, handlerEvents, handlerTab, clockTick,
                   TA1CCR0, TA1CCR1, ccie0, ccie1, btnIe, btnIfg, rxIe, rxIfg, txIfg, ackIe,
                   ackIfg, rxAck, txq>>

\* the instants the model lets the timer reach: the next compare match of TA1CCR0,
\* the next compare match of TA1CCR1, the tick before that one, and half a watchdog
\* period from now
AdvanceToTick == Advance(Dist(TA1R, TA1CCR0))
AdvanceToWatchdog == Advance(Dist(TA1R, TA1CCR1))
AdvanceBeforeWatchdog == Dist(TA1R, TA1CCR1) > 1 /\ Advance(Dist(TA1R, TA1CCR1) - 1)
AdvanceHalfWindow == Advance(UART_WATCHDOG_PERIOD \div 2)

\* the timer counts while the CPU sleeps and stops short of, or at, the next tick
\* deadline: the compare interrupt is then served at the count of the match
AdvanceIdle(d) == lpm /\ ccie0 /\ d >= 1 /\ d <= Dist(TA1R, TA1CCR0) /\ Advance(d)
AdvanceIdleToTick == AdvanceIdle(Dist(TA1R, TA1CCR0))
\* what is left of a quarter of a second after the whole periods in it
AdvanceIdleRest == clockTick > 0 /\ AdvanceIdle(UART_WATCHDOG_PERIOD % clockTick)

(* ---------------- specifications ---------------- *)

Isr == buttonIsr \/ rxIsr \/ timerIsr \/ txAckIsr \/ uartWatchdogIsr

MainLoop == Hal_idleLoop \/ L_DINT \/ L_READ \/ L_CLEAR \/ L_TEST \/ L_DISP \/ HandlerReturn

\* the main context's next statement once it is inside Hal_idleLoop or Em_Hal_reset
MainStep == MainLoop \/ Em_Hal_reset_set \/ Em_Hal_reset_end

\* Dispatcher with the button and the receiver as event sources; the timer stands
\* still, so neither compare interrupt is requested.
Next ==
    \/ Hal_idleLoop \/ L_DINT \/ L_READ \/ L_CLEAR \/ L_TEST \/ L_DISP \/ HandlerReturn
    \/ buttonIsr \/ rxIsr
    \/ Hal_buttonEnable
    \/ Em_Hal_reset_begin \/ Em_Hal_reset_set \/ Em_Hal_reset_end
    \/ ButtonEdge \/ RxByte

Spec == Init /\ [][Next]_vars

\* The CPU executes: the main context takes its next statement when no interrupt
\* is pending, and a pending enabled interrupt is taken.
LiveSpec == Spec /\ WF_vars(MainStep) /\ WF_vars(buttonIsr \/ rxIsr)

\* Periodic tick and button, with the timer running.
NextTick ==
    \/ Hal_idleLoop \/ L_DINT \/ L_READ \/ L_CLEAR \/ L_TEST \/ L_DISP \/ HandlerReturn
    \/ buttonIsr \/ timerIsr \/ uartWatchdogIsr
    \/ Hal_buttonEnable
    \/ \E m \in TickMsecs, h \in TickHandlers : Hal_tickStart(m, h)
    \/ ButtonEdge
    \/ AdvanceToTick \/ AdvanceHalfWindow

TickSpec == Init /\ [][NextTick]_vars

\* Transmit path and watchdog, with the timer running.
NextTx ==
    \/ Hal_idleLoop \/ L_DINT \/ L_READ \/ L_CLEAR \/ L_TEST
    \/ txAckIsr \/ uartWatchdogIsr
    \/ \E p \in Payloads : Em_Hal_startSend(p)
    \/ Em_Hal_watchOn \/ Em_Hal_watchOff
    \/ AckEdge
    \/ AdvanceToWatchdog \/ AdvanceBeforeWatchdog \/ AdvanceHalfWindow

TxSpec == Init /\ [][NextTx]_vars

\* Hal_tickStart over the range of its argument, with the timer running.
NextStart ==
    \/ Hal_idleLoop \/ L_DINT \/ L_READ \/ L_CLEAR \/ L_TEST \/ L_DISP \/ HandlerReturn
    \/ timerIsr \/ uartWatchdogIsr
    \/ \E m \in WideMsecs, h \in TickHandlers : Hal_tickStart(m, h)
    \/ AdvanceToTick \/ AdvanceHalfWindow

StartSpec == Init /\ [][NextStart]_vars

\* Periodic tick served without delay: the timer counts only while the CPU sleeps
\* and never past a tick deadline.
NextPeriod ==
    \/ Hal_idleLoop \/ L_DINT \/ L_READ \/ L_CLEAR \/ L_TEST \/ L_DISP \/ HandlerReturn
    \/ timerIsr \/ uartWatchdogIsr \/ buttonIsr
    \/ Hal_buttonEnable
    \/ \E m \in PeriodMsecs, h \in TickHandlers : Hal_tickStart(m, h)
    \/ ButtonEdge
    \/ AdvanceIdleToTick \/ AdvanceIdleRest

PeriodSpec == Init /\ [][NextPeriod]_vars

\* Watchdog interface with the periodic tick running.
NextWatch ==
    \/ Hal_idleLoop \/ L_DINT \/ L_READ \/ L_CLEAR \/ L_TEST \/ L_DISP \/ HandlerReturn
    \/ timerIsr \/ uartWatchdogIsr
    \/ \E m \in TickMsecs : Hal_tickStart(m, "appTick")
    \/ Em_Hal_watchOn \/ Em_Hal_watchOff
    \/ AdvanceToTick \/ AdvanceToWatchdog \/ AdvanceHalfWindow

WatchSpec == Init /\ [][NextWatch]_vars

\* Link reset with bytes and handshake edges arriving meanwhile.
NextReset ==
    \/ Hal_idleLoop \/ L_DINT \/ L_READ \/ L_CLEAR \/ L_TEST \/ L_DISP \/ HandlerReturn
    \/ buttonIsr \/ rxIsr \/ txAckIsr
    \/ Hal_buttonEnable
    \/ Em_Hal_reset_begin \/ Em_Hal_reset_set \/ Em_Hal_reset_end
    \/ ButtonEdge \/ RxByte \/ AckEdge

ResetSpec == Init /\ [][NextReset]_vars

\* The SRT interface called by the application's main() and by the handlers the loop
\* runs.
NextCall ==
    \/ Hal_idleLoop \/ L_DINT \/ L_READ \/ L_CLEAR \/ L_TEST \/ L_DISP \/ HandlerReturn
    \/ buttonIsr \/ txAckIsr \/ uartWatchdogIsr
    \/ Hal_buttonEnable
    \/ \E p \in Payloads : Em_Hal_startSend(p)
    \/ Em_Hal_watchOn \/ Em_Hal_watchOff
    \/ ButtonEdge \/ AckEdge
    \/ AdvanceToWatchdog \/ AdvanceHalfWindow

CallSpec == Init /\ [][NextCall]_vars

(* ---------------- properties ---------------- *)

\* number of invocations of handler i in the drain in progress (or just finished)
CallsOf(i) == Cardinality({n \in 1 .. Len(hist.trace) : hist.trace[n] = <<"call", i>>})

\* the interrupt request flag of the source that posts identifier i
FlagOf(i) == IF i = BUTTON_HANDLER_ID THEN btnIfg
             ELSE IF i = TICK_HANDLER_ID THEN ccifg0 ELSE rxIfg

\* C1: coalescing. When a drain is over, a bound handler whose identifier was posted
\* at least once since the previous drain was invoked exactly once, however often it
\* was posted, and a handler whose identifier was not posted was not invoked.
C1_Coalescing ==
    /\ \A i \in Ids : CallsOf(i) <= 1
    /\ hist.phase = "done" =>
          \A i \in Ids :
             CallsOf(i) = IF hist.snapPosted[i] > 0 /\ handlerTab[i] # NULL THEN 1 ELSE 0

C1_Witness ==
    /\ hist.phase = "done"
    /\ \E i \in Ids : hist.snapPosted[i] >= 2 /\ CallsOf(i) = 1

\* C2: an interrupt raised inside the read-and-clear critical section is served after
\* it, its bit survives the clear, it is taken by the next drain, and the handler is not
\* run for it by the drain in progress.
C2_CriticalSectionPost ==
    \A i \in Ids :
       /\ hist.tok[i] \notin {"late", "lost", "double"}
       /\ hist.tok[i] = "pend" => FlagOf(i)
       /\ hist.tok[i] = "posted" => Bit(handlerEvents, i)
       /\ hist.tok[i] = "snapped" =>
             /\ Bit(events, i)
             /\ pc \in {"clear", "test"} \/ (pc \in {"disp", "handler"} /\ id <= i)

C2_Witness == hist.delivered

\* C3: the CPU is never in the low-power wait with a bit set in the mask, and a bit
\* set for a bound handler leads to that handler being invoked.
C3_NoLostWakeup ==
    /\ [](lpm => handlerEvents = 0)
    /\ \A i \in Ids :
          (Bit(handlerEvents, i) /\ handlerTab[i] # NULL) ~> (pc = "handler" /\ id = i)

C3_Witness == hist.woke /\ pc = "handler"

\* C4: within a drain the handlers run in ascending identifier order, and a handler
\* has returned before the loop looks at the next identifier.
C4_AscendingOrder ==
    \A n \in 1 .. Len(hist.trace) - 1 :
       IF hist.trace[n][1] = "call"
       THEN hist.trace[n + 1] = <<"ret", hist.trace[n][2]>>
       ELSE hist.trace[n + 1][1] # "ret" /\ hist.trace[n + 1][2] > hist.trace[n][2]

C4_Witness ==
    hist.trace = <<<<"call", BUTTON_HANDLER_ID>>, <<"ret", BUTTON_HANDLER_ID>>,
                   <<"call", DISPATCH_HANDLER_ID>>, <<"ret", DISPATCH_HANDLER_ID>>>>

\* C5: a set bit whose slot is unbound is consumed without a call; the bound handlers
\* whose bits are set in the same drain run, and the loop goes on to the next drain.
C5_UnboundIsNoOp ==
    /\ \A i \in Ids : handlerTab[i] = NULL => CallsOf(i) = 0
    /\ \A i \in Ids : (hist.posted[i] = 0 /\ pc # "clear") => ~Bit(handlerEvents, i)
    /\ hist.phase = "done" =>
          /\ pc \in {"dint", "read"}
          /\ \A j \in Ids : (Bit(events, j) /\ handlerTab[j] # NULL) => CallsOf(j) = 1

C5_Witness ==
    /\ hist.phase = "done"
    /\ Bit(events, TICK_HANDLER_ID) /\ handlerTab[TICK_HANDLER_ID] = NULL
    /\ Bit(events, BUTTON_HANDLER_ID) /\ CallsOf(BUTTON_HANDLER_ID) = 1
    /\ ~Bit(handlerEvents, TICK_HANDLER_ID)

\* C6: the watchdog does not fire the restart when a peer-acknowledgment edge was
\* served between the arming and the deadline.
C6_AckCancelsReset == ~hist.ackedThenFired

\* C7: the watchdog is armed exactly when a transmission is in flight.
C7_ArmedIffInFlight == ccie1 <=> hist.inFlight

C9_AckedPayloadNoRestart ==
    (hist.tx = "done" /\ ~hist.slowAck /\ ~hist.stale) =>
        (hist.txLog = hist.payload /\ hist.firedInTx = 0)

\* C10: the k-th deadline programmed since Hal_tickStart at count t0 is t0 + k * clockTick
\* modulo 2^16, however late timerIsr ran.
C10_AdditiveDeadlines ==
    ccie0 => TA1CCR0 = (hist.t0 + hist.k * clockTick) % Word

C10_Witness ==
    /\ ccie0 /\ hist.k >= 3 /\ hist.lateTick
    /\ hist.t0 + hist.k * clockTick >= Word

\* C11: after Hal_tickStart(msecs, handler), for every msecs of the uint16_t range, the
\* stored period is floor(32768 * msecs / 1000) ticks, the first deadline is that many
\* ticks after the count at the call, and the handler is in the tick slot while the
\* compare interrupt is enabled.
C11_TickPeriod ==
    ccie0 =>
       /\ clockTick = (ACLK_TICKS_PER_SECOND * hist.msecs) \div 1000
       /\ hist.k = 1 =>
             TA1CCR0 = (hist.t0 + (ACLK_TICKS_PER_SECOND * hist.msecs) \div 1000) % Word
       /\ handlerTab[TICK_HANDLER_ID] \in TickHandlers

C13_DelaysUnlocked == (rst \in {"delay1", "delay2"} /\ key) => gie

\* C14: Em_Hal_watchOn programs TA1CCR1 = (TA1R + 8192) mod 2^16 and enables the compare
\* interrupt, whatever was armed before; Em_Hal_watchOff disables the compare interrupt
\* and leaves the deadline as it is; both leave the event mask, the handler table and
\* the tick's period, deadline and interrupt enable unchanged.
C14_WatchContract ==
    [][ /\ hist.arms' # hist.arms =>
             /\ UART_WATCHDOG_PERIOD = 8192
             /\ TA1CCR1' = (TA1R + 8192) % Word
             /\ ccie1'
             /\ UNCHANGED <<handlerEvents, handlerTab, clockTick, TA1CCR0, ccie0, ccifg0>>
        /\ (budget.calls' # budget.calls /\ hist.arms' = hist.arms) =>
             /\ ~ccie1'
             /\ UNCHANGED <<handlerEvents, handlerTab, clockTick, TA1CCR0, ccie0, ccifg0,
                            TA1CCR1, TA1R, gie, lpm>>
      ]_vars

\* the watchdog armed by Hal_init was armed again later, with the tick running
C14_Witness ==
    /\ hist.arms = 2 /\ ccie1 /\ ccie0
    /\ TA1R # 0 /\ TA1CCR1 = (TA1R + UART_WATCHDOG_PERIOD) % Word

\* C15: rxIsr notifies the codec of the frame start, pulses the receiver-ready line low
\* then high, forwards the byte, and posts the dispatch event exactly when the codec
\* reports the frame complete; however many bytes are received before a drain, the
\* drain invokes the dispatch handler at most once, and once if one of them completed
\* a frame.
C15_RxPostsOnComplete ==
    /\ [](CallsOf(DISPATCH_HANDLER_ID) <= 1)
    /\ [](hist.phase = "done" =>
             CallsOf(DISPATCH_HANDLER_ID) =
                IF hist.snapPosted[DISPATCH_HANDLER_ID] > 0 THEN 1 ELSE 0)
    /\ [][hist.rx.n' # hist.rx.n =>
             /\ SubSeq(hist.rx.steps', 1, 4) = <<"startRx", "rxAckLow", "rxAckHigh", "addByte">>
             /\ hist.rx.steps' \in {<<"startRx", "rxAckLow", "rxAckHigh", "addByte">>,
                                    <<"startRx", "rxAckLow", "rxAckHigh", "addByte", "postEvent">>}
             /\ Len(hist.rx.steps') = 5 <=> hist.rx.complete'
             /\ rxAck' = 1
             /\ \A i \in Ids :
                   Bit(handlerEvents', i) <=>
                      (Bit(handlerEvents, i) \/ (i = DISPATCH_HANDLER_ID /\ hist.rx.complete'))
       ]_vars

\* two bytes received before the drain, the second completing the frame, one invocation
C15_Witness ==
    /\ hist.phase = "done" /\ hist.rx.n = 2 /\ hist.rx.complete
    /\ hist.snapPosted[DISPATCH_HANDLER_ID] = 1
    /\ CallsOf(DISPATCH_HANDLER_ID) = 1

\* C16 (as stated): txAckIsr writes the output register exactly when the codec supplies
\* a byte; when the codec declines, nothing changes but the edge flag.
C16_InertAck ==
    [][(ackIfg /\ ~ackIfg' /\ rst = "none") =>
          /\ Len(hist.txLog') = Len(hist.txLog) + (IF txq # <<>> THEN 1 ELSE 0)
          /\ txq = <<>> =>
                UNCHANGED <<hist.txLog, txq, handlerEvents, handlerTab, ccie1, ccifg1, TA1CCR1,
                            TA1CCR0, ccie0, ccifg0, clockTick, TA1R, rxAck, rxIe, rxIfg,
                            txIfg, btnIe, btnIfg, ackIe, gie, pc, id, events, lpm>>
      ]_vars

\* C16 (amended): txAckIsr writes the output register exactly when the codec supplies a
\* byte; when the codec declines, the output register, the event mask, the handler
\* table, the timer and the watchdog are unchanged: the edge flag is cleared and a
\* sleeping CPU is woken.
C16_InertAckWakes ==
    [][(ackIfg /\ ~ackIfg' /\ rst = "none") =>
          /\ Len(hist.txLog') = Len(hist.txLog) + (IF txq # <<>> THEN 1 ELSE 0)
          /\ ~lpm'
          /\ txq = <<>> =>
                UNCHANGED <<hist.txLog, txq, handlerEvents, handlerTab, ccie1, ccifg1, TA1CCR1,
                            TA1CCR0, ccie0, ccifg0, clockTick, TA1R, rxAck, rxIe, rxIfg,
                            txIfg, btnIe, btnIfg, ackIe, gie, pc, id, events>>
      ]_vars

\* an edge with nothing to send was served while the CPU slept
C16_Witness == hist.ackWoke /\ ~ackIfg /\ ~lpm /\ hist.txLog = <<>>

\* C17: Hal_idleLoop has interrupts enabled when it invokes a handler, while a handler
\* runs (unless the handler itself is inside Em_Hal_reset), while it walks the
\* identifiers and while the CPU sleeps; it has them disabled only between DINT and the
\* EINT or SLEEP that follows the zero test.
C17_NoLockAcrossHandler ==
    /\ (pc \in {"disp", "dint"}) => gie
    /\ (pc = "handler" /\ rst = "none") => gie
    /\ lpm => gie
    /\ (~gie /\ rst = "none" /\ pc # "app") => InCritical

\* an interrupt was served after the drain's critical section, with a handler in progress
C17_Witness ==
    /\ pc = "handler" /\ rst = "none" /\ gie
    /\ hist.posted[BUTTON_HANDLER_ID] > 0 /\ Bit(handlerEvents, BUTTON_HANDLER_ID)

\* C18: Em_Hal_unlock(Em_Hal_lock()) restores the interrupt enable that held before the
\* lock: postEvent inside a service routine leaves interrupts disabled, so no routine
\* starts inside another; Em_Hal_reset saves the caller's enable, disables interrupts
\* and gives the caller's enable back on return.
C18_LockRestores ==
    /\ [](~hist.nested)
    /\ [](\A g \in BOOLEAN :
             /\ Em_Hal_unlock(Em_Hal_lock(g).gie, Em_Hal_lock(g).key) = g
             /\ \A i \in Ids : postEvent(handlerEvents, g, i).gie = g)
    /\ [][(rst = "none" /\ rst' # "none") => (key' = gie /\ ~gie')]_vars
    /\ [][(rst # "none" /\ rst' = "none") => gie' = key]_vars

\* Em_Hal_reset was called from a handler with interrupts enabled and has returned,
\* after a service routine had posted an event
C18_Witness ==
    /\ pc = "handler" /\ rst = "none" /\ budget.calls = 1 /\ key /\ gie
    /\ hist.snapPosted[BUTTON_HANDLER_ID] > 0

\* C19: Em_Hal_reset holds the receiver-ready line low during the first delay and high
\* during the second, then clears the receive, transmit and handshake-edge flags and
\* enables the receive interrupt; on return the line is high, the three flags are clear
\* whatever arrived meanwhile, the receive interrupt is enabled and the caller's
\* interrupt enable is restored.
C19_ResetSequence ==
    /\ [](rst = "delay1" => (rxAck = 0 /\ ~gie))
    /\ [](rst = "delay2" => (rxAck = 1 /\ ~gie))
    /\ [][(rst = "none" /\ rst' # "none") => (rst' = "delay1" /\ key' = gie)]_vars
    /\ [][rst = "delay1" => rst' \in {"delay1", "delay2"}]_vars
    /\ [][(rst = "delay2" /\ rst' # "delay2") =>
             /\ rst' = "none"
             /\ ~rxIfg' /\ ~txIfg' /\ ~ackIfg'
             /\ rxIe' /\ rxAck' = 1
             /\ gie' = key]_vars

\* a byte and a handshake edge arrived during the reset and were discarded by it
C19_Witness ==
    /\ hist.discarded /\ rst = "none"
    /\ ~rxIfg /\ ~ackIfg /\ ~txIfg /\ rxIe /\ rxAck = 1 /\ gie

\* C20: the output register, the watchdog deadline and the watchdog enable are not
\* written by the main context while interrupts are enabled.
C20_LockedWrites == ~hist.openWrite

====
